---- MODULE Spec2Model ----
(***************************************************************************)
(* Lamp control core of crafter-lamp.ino: three dimmable channels, one     *)
(* rotary knob with a push button, an MQTT command/brightness protocol and *)
(* the ezTime event that publishes the brightness once the knob is still.  *)
(***************************************************************************)
EXTENDS Integers, Sequences, FiniteSets, TLC

----------------------------------------------------------------------------
(* Program constants *)

numberOfLamps == 3
displayAfterglow == 4
minLampValue == 2
knobMin == 2
knobMax == 255
commandMax == 255
initLampValue == 128
initRotaryPosition == 128
displayAlwaysOn == TRUE
mqttBrightnessTopic == "brightness"
mqttCommandTopic == "command"

Lamps == 0 .. (numberOfLamps - 1)

(* Bounds of the model *)

\* one knob movement between two polls, in encoder counts
KnobStep == 254
\* the encoder position is kept within -MaxKnob .. MaxKnob
MaxKnob == 400
\* inbound messages that can sit in the socket while one handler runs
MaxInFlight == 1
\* inputs (gestures, knob movements, messages, transport losses) in one run
MaxInputs == 4

----------------------------------------------------------------------------
(* Text conversions: String::toInt (atol) and String(int) *)

Digits == <<"0", "1", "2", "3", "4", "5", "6", "7", "8", "9">>

IsDigit(ch) == \E d \in 1 .. 10 : Digits[d] = ch

DigitVal(ch) == (CHOOSE d \in 1 .. 10 : Digits[d] = ch) - 1

RECURSIVE atol(_, _)
atol(s, acc) ==
  IF s = <<>> \/ ~IsDigit(Head(s))
  THEN acc
  ELSE atol(Tail(s), acc * 10 + DigitVal(Head(s)))

\* String::toInt: optional sign, then the leading digits; 0 when there are none
toInt(s) ==
  IF s # <<>> /\ Head(s) = "-" THEN 0 - atol(Tail(s), 0) ELSE atol(s, 0)

RECURSIVE StringOf(_)
\* String(int) for a non-negative int: its decimal digits
StringOf(n) ==
  IF n < 10 THEN <<Digits[n + 1]>>
  ELSE Append(StringOf(n \div 10), Digits[(n % 10) + 1])

\* ASCII code of the character that names the lamp in a topic
Ord(ch) ==
  CASE ch = "/" -> 47
    [] ch = "0" -> 48
    [] ch = "1" -> 49
    [] ch = "2" -> 50
    [] ch = "3" -> 51
    [] ch = ":" -> 58

----------------------------------------------------------------------------
(* Inputs *)

Msg(c, part, payload) == [lampChar |-> c, part |-> part, payload |-> payload]

\* commands for each lamp: off, the smallest payload, full brightness
Commands ==
  {Msg(c, mqttCommandTopic, p) :
     c \in {"0", "1", "2"}, p \in {<<"0">>, <<"1">>, <<"2", "0", "0">>}}

\* messages the callback has to turn down
Rejects ==
  {Msg("3", mqttCommandTopic, <<"2", "0", "0">>),
   Msg("/", mqttCommandTopic, <<"2", "0", "0">>),
   Msg("1", mqttBrightnessTopic, <<"2", "0", "0">>),
   Msg("1", "state", <<"2", "0", "0">>),
   Msg("1", mqttCommandTopic, <<"3", "0", "0">>),
   Msg("1", mqttCommandTopic, <<"-", "1">>),
   Msg("1", mqttCommandTopic, <<"o", "n">>)}

\* an inbound message: crafter-lamp/<lampChar>/<part> with a payload
Messages == Commands \cup Rejects

NoMessage == [lampChar |-> "/", part |-> "none", payload |-> <<>>]

\* messages that can arrive while a handler is inside mqttPublishValue
InFlight ==
  {Msg("0", mqttCommandTopic, <<"2", "0", "0">>),
   Msg("1", mqttCommandTopic, <<"0">>)}

KnobMoves == {0 - KnobStep, KnobStep}

----------------------------------------------------------------------------
(* State *)

VARIABLES
  myLamps,            \* [Lamps -> [isOn, isOnDefault, value]]
  analogOut,          \* last analogWrite on each lamp's pin
  selectedLamp,
  rotaryOldPosition,
  rotaryKnob,         \* position held by the Encoder object
  lampsInUse,
  displayConnected,
  wifiConnected,
  mqttConnected,
  clientConnected,    \* mqttClient.connected()
  brokerUp,           \* whether mqttClient.connect() would succeed
  events,             \* ezTime's events: seconds until each clearDisplayAndPublishMQTT set is due
  pc,                 \* position in loop(), or "reconnect" inside mqttReconnect
  ret,                \* the call interrupted by mqttReconnect
  attempts,           \* parity of the failed connect attempts of mqttReconnect
  published,          \* publishes made by the most recent operation
  fades,              \* fades run by switchLamp in it
  displayCalled,      \* whether it called the display
  lastOp,             \* the most recent operation of loop()
  lastMsg,            \* the message handed to mqttCallback by it
  inputs,             \* inputs so far
  lpRun,              \* long presses in a row with nothing in between
  lpBefore,           \* myLamps before the first of them
  burstLen,           \* knob movements polled since the burst began
  burstPubs,          \* publishes since the burst began
  quiet,              \* seconds since the last movement of the burst
  offRot,             \* 1 knob turned while off, 2 then clicked on, 3 then polled
  offRotBefore,       \* myLamps before the knob was turned
  dblRun,             \* double clicks in a row with nothing in between
  dblBefore,          \* selectedLamp and myLamps before the first of them
  cmdRun,             \* 1 a command was handled, 2 loop() has polled the knob since
  cmdBefore           \* myLamps and the pins before the command, and its lamp

bootVars == <<displayConnected, wifiConnected, mqttConnected>>
vars == <<myLamps, analogOut, selectedLamp, rotaryOldPosition, rotaryKnob,
          lampsInUse, displayConnected, wifiConnected, mqttConnected,
          clientConnected, brokerUp, events, pc, ret, attempts,
          published, fades, displayCalled, lastOp, lastMsg, inputs, lpRun,
          lpBefore, burstLen, burstPubs, quiet, offRot, offRotBefore, dblRun,
          dblBefore, cmdRun, cmdBefore>>

LoopPhases == {"knob", "button", "events", "mqtt"}

\* the globals a handler works on
Globals ==
  [myLamps |-> myLamps, analogOut |-> analogOut, selectedLamp |-> selectedLamp,
   rotaryKnob |-> rotaryKnob, lampsInUse |-> lampsInUse, published |-> published,
   fades |-> fades, displayCalled |-> displayCalled]

Commit(g) ==
  /\ myLamps' = g.myLamps
  /\ analogOut' = g.analogOut
  /\ selectedLamp' = g.selectedLamp
  /\ rotaryKnob' = g.rotaryKnob
  /\ lampsInUse' = g.lampsInUse
  /\ published' = g.published
  /\ fades' = g.fades
  /\ displayCalled' = g.displayCalled

InitLamps ==
  [i \in Lamps |->
     [isOn |-> FALSE, isOnDefault |-> FALSE, value |-> initLampValue]]

Done == [h |-> "done", i |-> 0, val |-> <<>>]

\* the observers' records when there is nothing to record
NoDbl == [sel |-> 0, lamps |-> InitLamps]

NoCmd == [lamp |-> 0, lamps |-> InitLamps, out |-> [i \in Lamps |-> 0]]

AnyOn(lamps) == \E i \in Lamps : lamps[i].isOn

----------------------------------------------------------------------------
(* Handlers *)

\* a variant without the upper limit of the range test of line 306
mqttCallbackNoUpperLimit(g, m) ==
  LET lamp == Ord(m.lampChar) - 48
      intValue == toInt(m.payload)
  IN IF lamp < 0 \/ lamp > numberOfLamps - 1 THEN g
     ELSE IF m.part = mqttBrightnessTopic THEN g
     ELSE IF m.part = mqttCommandTopic THEN
       IF intValue < 0 THEN g
       ELSE IF intValue > 0 THEN
         [g EXCEPT !.myLamps[lamp].value = intValue,
                   !.analogOut[lamp] = intValue,
                   !.rotaryKnob = intValue,
                   !.myLamps[lamp].isOn = TRUE,
                   !.lampsInUse = TRUE,
                   !.displayCalled = @ \/ displayConnected]
       ELSE
         LET g1 == [g EXCEPT !.analogOut[lamp] = 0,
                             !.myLamps[lamp].isOn = FALSE]
         IN [g1 EXCEPT !.lampsInUse = AnyOn(g1.myLamps),
                       !.displayCalled = @ \/ displayConnected]
     ELSE g

mqttCallback(g, m) ==
  LET lamp == Ord(m.lampChar) - 48
      intValue == toInt(m.payload)
  IN IF lamp < 0 \/ lamp > numberOfLamps - 1 THEN g
     ELSE IF m.part = mqttBrightnessTopic THEN g
     ELSE IF m.part = mqttCommandTopic THEN
       IF intValue < 0 \/ intValue > commandMax THEN g
       ELSE IF intValue > 0 THEN
         [g EXCEPT !.myLamps[lamp].value = intValue,
                   !.analogOut[lamp] = intValue,
                   !.rotaryKnob = intValue,
                   !.myLamps[lamp].isOn = TRUE,
                   !.lampsInUse = TRUE,
                   !.displayCalled = @ \/ displayConnected]
       ELSE
         LET g1 == [g EXCEPT !.analogOut[lamp] = 0,
                             !.myLamps[lamp].isOn = FALSE]
         IN [g1 EXCEPT !.lampsInUse = AnyOn(g1.myLamps),
                       !.displayCalled = @ \/ displayConnected]
     ELSE g

\* mqttClient.loop() hands a waiting message to the callback
clientLoop(g, m) == IF m = NoMessage THEN g ELSE mqttCallback(g, m)

\* the body of mqttPublishValue once the client is connected
mqttPublishValue(g, value, m) ==
  LET g1 == clientLoop(g, m)
      sel == g1.selectedLamp
  IN [g1 EXCEPT !.published =
        Append(@, [lamp |-> sel, payload |-> value,
                   isOn |-> g1.myLamps[sel].isOn,
                   value |-> g1.myLamps[sel].value])]

\* a variant whose loop stops at i < value
fadeWritesStopsShort(value, switchOn) ==
  [n \in 1 .. value |-> IF switchOn THEN n - 1 ELSE value - (n - 1)]

\* the for loop of switchLamp: the analogWrite of each pass i = 0 .. value, in
\* order (the n-th pass has i = n - 1)
fadeWrites(value, switchOn) ==
  [n \in 1 .. (value + 1) |-> IF switchOn THEN n - 1 ELSE value - (n - 1)]

\* the pin after the loop: its last write, or out when the loop body never ran
fadeLoop(value, switchOn, out) ==
  LET writes == fadeWrites(value, switchOn)
  IN IF Len(writes) = 0 THEN out ELSE writes[Len(writes)]

RECURSIVE switchLamp(_, _, _, _, _)
RECURSIVE CallPublish(_, _, _, _, _)
RECURSIVE Continue(_, _, _, _)
RECURSIVE LongPressLoop(_, _, _, _, _)

\* Each of these yields the set of outcomes [g, k, left] of running on from a
\* point of a handler: k = Done at the handler's end, or the call that waits
\* in mqttReconnect.  conn: the client is connected; n: messages that may
\* still arrive during this handler (left: those that did not).

switchLamp(g, switchOn, k, conn, n) ==
  LET sel == g.selectedLamp
      out == fadeLoop(g.myLamps[sel].value, switchOn, g.analogOut[sel])
      g1 == [g EXCEPT !.analogOut[sel] = out,
                      !.myLamps[sel].isOn = switchOn,
                      !.fades = Append(@, [lamp |-> sel, switchOn |-> switchOn,
                                           value |-> g.myLamps[sel].value,
                                           out |-> out])]
      val == IF switchOn THEN StringOf(g1.myLamps[sel].value) ELSE <<"0">>
  IN IF mqttConnected THEN CallPublish(g1, val, k, conn, n)
     ELSE Continue(g1, k, conn, n)

CallPublish(g, val, k, conn, n) ==
  IF ~conn THEN {[g |-> g, k |-> [k EXCEPT !.val = val], left |-> n]}
  ELSE UNION {Continue(mqttPublishValue(g, val, m), k, TRUE,
                       IF m = NoMessage THEN n ELSE n - 1) :
              m \in {NoMessage} \cup (IF n > 0 THEN InFlight ELSE {})}

\* the end of rotaryLongPressStart, after the for loop
LongPressEnd(g, h) ==
  IF h = "lpOff"
  THEN [g EXCEPT !.selectedLamp =
                    IF displayConnected /\ displayAlwaysOn THEN 0 ELSE @,
                 !.displayCalled = @ \/ displayConnected,
                 !.lampsInUse = FALSE]
  ELSE [g EXCEPT !.selectedLamp = 0,
                 !.displayCalled = @ \/ displayConnected,
                 !.lampsInUse = TRUE]

Continue(g, k, conn, n) ==
  CASE k.h = "clickOff" ->
         {[g |-> [g EXCEPT !.lampsInUse = AnyOn(g.myLamps),
                           !.displayCalled = @ \/ displayConnected],
           k |-> Done, left |-> n]}
    [] k.h = "clickOn" ->
         {[g |-> [g EXCEPT !.displayCalled = @ \/ displayConnected],
           k |-> Done, left |-> n]}
    [] k.h = "settle" -> {[g |-> g, k |-> Done, left |-> n]}
    [] k.h \in {"lpOff", "lpOn"} -> LongPressLoop(g, k.h, k.i + 1, conn, n)

LongPressLoop(g, h, i, conn, n) ==
  IF i >= numberOfLamps
  THEN {[g |-> LongPressEnd(g, h), k |-> Done, left |-> n]}
  ELSE LET g1 == IF h = "lpOff"
                 THEN [g EXCEPT !.myLamps[i].isOnDefault = g.myLamps[i].isOn]
                 ELSE [g EXCEPT !.myLamps[i].isOn = g.myLamps[i].isOnDefault]
       IN IF g1.myLamps[i].isOn
          THEN switchLamp([g1 EXCEPT !.selectedLamp = i], h = "lpOn",
                          [h |-> h, i |-> i, val |-> <<>>], conn, n)
          ELSE LongPressLoop(g1, h, i + 1, conn, n)

rotaryClick(g, conn, n) ==
  IF g.myLamps[g.selectedLamp].isOn
  THEN switchLamp(g, FALSE, [h |-> "clickOff", i |-> 0, val |-> <<>>], conn, n)
  ELSE switchLamp([g EXCEPT !.lampsInUse = TRUE,
                            !.displayCalled =
                               @ \/ (~g.lampsInUse /\ displayConnected
                                       /\ wifiConnected)],
                  TRUE, [h |-> "clickOn", i |-> 0, val |-> <<>>], conn, n)

\* a variant that wraps one lamp early
rotaryDoubleClickWrapsEarly(g) ==
  LET next == IF g.selectedLamp + 1 >= numberOfLamps - 1 THEN 0
              ELSE g.selectedLamp + 1
  IN [g EXCEPT !.selectedLamp = next, !.rotaryKnob = g.myLamps[next].value,
               !.displayCalled = @ \/ displayConnected]

rotaryDoubleClick(g) ==
  LET next == IF g.selectedLamp + 1 >= numberOfLamps THEN 0
              ELSE g.selectedLamp + 1
  IN [g EXCEPT !.selectedLamp = next, !.rotaryKnob = g.myLamps[next].value,
               !.displayCalled = @ \/ displayConnected]

rotaryLongPressStart(g, conn, n) ==
  LongPressLoop(g, IF g.lampsInUse THEN "lpOff" ELSE "lpOn", 0, conn, n)

clearDisplayAndPublishMQTT(g, conn, n) ==
  \* lines 359-364: displayTime() or fillRect() and display(), either way
  LET g1 == [g EXCEPT !.displayCalled = TRUE]
  IN IF mqttConnected
     THEN CallPublish(g1, StringOf(g1.myLamps[g1.selectedLamp].value),
                      [h |-> "settle", i |-> 0, val |-> <<>>], conn, n)
     ELSE {[g |-> g1, k |-> Done, left |-> n]}

----------------------------------------------------------------------------
(* setup() *)

Init ==
  /\ myLamps = InitLamps
  /\ analogOut = [i \in Lamps |-> 0]
  /\ selectedLamp = 0
  /\ rotaryOldPosition = initRotaryPosition
  /\ rotaryKnob = myLamps[selectedLamp].value
  /\ lampsInUse = FALSE
  /\ displayConnected \in BOOLEAN
  /\ wifiConnected \in BOOLEAN
  /\ mqttConnected \in (IF wifiConnected THEN BOOLEAN ELSE {FALSE})
  /\ clientConnected = mqttConnected
  /\ brokerUp = mqttConnected
  /\ events = <<>>
  /\ pc = "knob"
  /\ ret = Done
  /\ attempts = 0
  /\ published = <<>>
  /\ fades = <<>>
  /\ displayCalled = FALSE
  /\ lastOp = "boot"
  /\ lastMsg = NoMessage
  /\ inputs = 0
  /\ lpRun = 0
  /\ lpBefore = InitLamps
  /\ burstLen = 0
  /\ burstPubs = 0
  /\ quiet = 0
  /\ offRot = 0
  /\ offRotBefore = InitLamps
  /\ dblRun = 0
  /\ dblBefore = NoDbl
  /\ cmdRun = 0
  /\ cmdBefore = NoCmd

----------------------------------------------------------------------------
(* Observers: they record what a run did and steer nothing *)

\* long presses in a row; ev: "lp" a long press that ran through undisturbed,
\* "idle" a step of loop() with nothing to do, "keep" time passing
LpObserve(ev) ==
  CASE ev = "keep" -> UNCHANGED <<lpRun, lpBefore>>
    [] ev = "idle" /\ lpRun = 1 -> UNCHANGED <<lpRun, lpBefore>>
    [] ev = "lp" /\ lpRun = 1 -> lpRun' = 2 /\ UNCHANGED lpBefore
    [] ev = "lp" /\ lpRun # 1 /\ AnyOn(myLamps) ->
         lpRun' = 1 /\ lpBefore' = myLamps
    [] OTHER -> lpRun' = 0 /\ lpBefore' = InitLamps

\* a burst of knob movements, each less than the quiet period after the one
\* before; ev: "move" a poll that found the knob moved, "settle" the settle
\* action ran undisturbed and published pubs times, "tick" a second passed
BurstObserve(ev, pubs) ==
  CASE ev \in {"keep", "idle"} -> UNCHANGED <<burstLen, burstPubs, quiet>>
    [] ev = "tick" ->
         /\ quiet' = IF burstLen > 0 /\ quiet < displayAfterglow
                     THEN quiet + 1 ELSE quiet
         /\ UNCHANGED <<burstLen, burstPubs>>
    [] ev = "move" /\ burstLen > 0 /\ quiet < displayAfterglow ->
         burstLen' = burstLen + 1 /\ quiet' = 0 /\ UNCHANGED burstPubs
    [] ev = "move" /\ ~(burstLen > 0 /\ quiet < displayAfterglow) ->
         burstLen' = 1 /\ quiet' = 0 /\ burstPubs' = 0
    [] ev = "settle" /\ burstLen > 0 ->
         burstPubs' = burstPubs + pubs /\ UNCHANGED <<burstLen, quiet>>
    [] OTHER -> burstLen' = 0 /\ burstPubs' = 0 /\ quiet' = 0

\* the knob turned while the selected lamp is off, then one click, then a poll
OffRotObserve(ev) ==
  CASE ev = "keep" -> UNCHANGED <<offRot, offRotBefore>>
    [] ev = "idle" /\ offRot \in {1, 2} -> UNCHANGED <<offRot, offRotBefore>>
    [] ev = "rotate" /\ ~myLamps[selectedLamp].isOn ->
         /\ offRot' = 1
         /\ offRotBefore' = IF offRot = 1 THEN offRotBefore ELSE myLamps
    [] ev = "clickOn" /\ offRot = 1 -> offRot' = 2 /\ UNCHANGED offRotBefore
    [] ev = "poll" /\ offRot = 1 -> UNCHANGED <<offRot, offRotBefore>>
    [] ev = "poll" /\ offRot = 2 -> offRot' = 3 /\ UNCHANGED offRotBefore
    [] OTHER -> offRot' = 0 /\ offRotBefore' = InitLamps

\* double clicks in a row; ev: "dbl" a double click, "idle" a step of loop()
\* with nothing to do
DblObserve(ev) ==
  CASE ev \in {"keep", "idle"} -> UNCHANGED <<dblRun, dblBefore>>
    [] ev = "dbl" /\ dblRun \in {1, 2} ->
         dblRun' = dblRun + 1 /\ UNCHANGED dblBefore
    [] ev = "dbl" /\ dblRun \notin {1, 2} ->
         dblRun' = 1 /\ dblBefore' = [sel |-> selectedLamp, lamps |-> myLamps]
    [] OTHER -> dblRun' = 0 /\ dblBefore' = NoDbl

\* a command and the pass of loop() after it, up to the poll of the knob; ev:
\* "poll" the knob was polled, c: the lamp the command of ev = "cmd" addresses
CmdObserve(ev, c) ==
  CASE ev = "keep" \/ (ev = "idle" /\ cmdRun < 2) ->
         UNCHANGED <<cmdRun, cmdBefore>>
    [] ev = "poll" ->
         cmdRun' = (IF cmdRun > 0 THEN 2 ELSE 0) /\ UNCHANGED cmdBefore
    [] ev = "cmd" ->
         /\ cmdRun' = 1
         /\ cmdBefore' = [lamp |-> c, lamps |-> myLamps, out |-> analogOut]
    [] OTHER -> cmdRun' = 0 /\ cmdBefore' = NoCmd

Observe(ev) ==
  /\ LpObserve(ev)
  /\ BurstObserve(ev, 0)
  /\ OffRotObserve(ev)
  /\ DblObserve(ev)
  /\ CmdObserve(ev, 0)

\* the handler ran to its end with no message arriving inside it
Undisturbed(r) == r.k = Done /\ r.left = MaxInFlight

----------------------------------------------------------------------------
(* ezTime events *)

\* deleteEvent(function): every event set for the function goes
deleteEvent(ev) == <<>>

\* setEvent(function, time): one more event, due in secs seconds
setEvent(ev, secs) == Append(ev, secs)

\* an event is due
Due(ev) == \E n \in 1 .. Len(ev) : ev[n] = 0

\* the first event that is due
FirstDue(ev) == CHOOSE n \in 1 .. Len(ev) : ev[n] = 0 /\ \A j \in 1 .. (n - 1) : ev[j] # 0

\* the events without the n-th
Without(ev, n) == SubSeq(ev, 1, n - 1) \o SubSeq(ev, n + 1, Len(ev))

\* a variant without the deleteEvent, where an event already pending keeps
\* its time
scheduleSettleKeepFirst(pending) ==
  IF pending = <<>> THEN setEvent(pending, displayAfterglow) ELSE pending

\* a variant without the deleteEvent, where every movement sets one more event
scheduleSettleNoDelete(pending) == setEvent(pending, displayAfterglow)

\* lines 224-226: deleteEvent, then setEvent displayAfterglow seconds from now
scheduleSettle(pending) == setEvent(deleteEvent(pending), displayAfterglow)

----------------------------------------------------------------------------
(* loop() *)

transportVars == <<clientConnected, brokerUp, attempts>>
lampVars == <<myLamps, analogOut, selectedLamp, rotaryKnob, lampsInUse>>
callVars == <<published, fades, displayCalled>>

\* a step that is an input of the run
Input == inputs < MaxInputs /\ inputs' = inputs + 1

\* what the step was
Did(op, m) == lastOp' = op /\ lastMsg' = m

\* a handler has run on to outcome r; next is the position in loop() after it
Finish(r, next) ==
  /\ Commit(r.g)
  /\ IF r.k = Done
     THEN pc' = next /\ ret' = Done
     ELSE pc' = "reconnect" /\ ret' = r.k

Fresh ==
  [Globals EXCEPT !.published = <<>>, !.fades = <<>>, !.displayCalled = FALSE]

\* a step that runs no handler
NoCalls == published' = <<>> /\ fades' = <<>>

\* lines 209-242: knob turned? new time?
LoopKnob ==
  /\ pc = "knob"
  /\ pc' = "button"
  /\ NoCalls
  /\ \E minuteChanged \in BOOLEAN :
        displayCalled' =
          (displayConnected /\
             \/ myLamps[selectedLamp].isOn /\ rotaryKnob # rotaryOldPosition
             \/ (lampsInUse \/ displayAlwaysOn) /\ minuteChanged /\ wifiConnected)
  /\ IF myLamps[selectedLamp].isOn /\ rotaryKnob # rotaryOldPosition
     THEN LET rotaryNewPosition ==
                IF rotaryKnob < knobMin THEN knobMin
                ELSE IF rotaryKnob > knobMax THEN knobMax
                ELSE rotaryKnob
          IN /\ rotaryKnob' = rotaryNewPosition
             /\ myLamps' = [myLamps EXCEPT ![selectedLamp].value = rotaryNewPosition]
             /\ rotaryOldPosition' = rotaryNewPosition
             /\ analogOut' = [analogOut EXCEPT ![selectedLamp] = rotaryNewPosition]
             /\ events' = scheduleSettle(events)
             /\ Did("knob", NoMessage)
             /\ LpObserve("other") /\ BurstObserve("move", 0)
             /\ DblObserve("other")
     ELSE /\ UNCHANGED <<rotaryKnob, myLamps, rotaryOldPosition, analogOut,
                         events>>
          /\ Did("none", NoMessage)
          /\ LpObserve("idle") /\ BurstObserve("idle", 0)
          /\ DblObserve("idle")
  /\ OffRotObserve("poll")
  /\ CmdObserve("poll", 0)
  /\ UNCHANGED <<selectedLamp, lampsInUse, bootVars, transportVars, ret, inputs>>

\* rotaryButton.tick() with no gesture completed
NoGesture ==
  /\ pc = "button"
  /\ pc' = "events"
  /\ NoCalls /\ displayCalled' = FALSE
  /\ Did("none", NoMessage)
  /\ Observe("idle")
  /\ UNCHANGED <<lampVars, rotaryOldPosition, bootVars, transportVars,
                 events, ret, inputs>>

Click ==
  /\ pc = "button"
  /\ Input
  /\ \E r \in rotaryClick(Fresh, clientConnected, MaxInFlight) :
        /\ Finish(r, "events")
        /\ OffRotObserve(IF Undisturbed(r) /\ ~myLamps[selectedLamp].isOn
                         THEN "clickOn" ELSE "other")
  /\ Did("click", NoMessage)
  /\ LpObserve("other") /\ BurstObserve("other", 0)
  /\ DblObserve("other") /\ CmdObserve("other", 0)
  /\ UNCHANGED <<rotaryOldPosition, bootVars, transportVars, events>>

DoubleClick ==
  /\ pc = "button"
  /\ Input
  /\ pc' = "events"
  /\ Commit(rotaryDoubleClick(Fresh))
  /\ Did("doubleclick", NoMessage)
  /\ LpObserve("other") /\ BurstObserve("other", 0) /\ OffRotObserve("other")
  /\ DblObserve("dbl") /\ CmdObserve("other", 0)
  /\ UNCHANGED <<rotaryOldPosition, bootVars, transportVars, events, ret>>

LongPressStart ==
  /\ pc = "button"
  /\ Input
  /\ \E r \in rotaryLongPressStart(Fresh, clientConnected, MaxInFlight) :
        /\ Finish(r, "events")
        /\ LpObserve(IF Undisturbed(r) THEN "lp" ELSE "other")
  /\ Did("longpress", NoMessage)
  /\ BurstObserve("other", 0) /\ OffRotObserve("other")
  /\ DblObserve("other") /\ CmdObserve("other", 0)
  /\ UNCHANGED <<rotaryOldPosition, bootVars, transportVars, events>>

\* events() with nothing due
NoEventDue ==
  /\ pc = "events"
  /\ ~Due(events)
  /\ pc' = "mqtt"
  /\ NoCalls /\ displayCalled' = FALSE
  /\ Did("none", NoMessage)
  /\ Observe("idle")
  /\ UNCHANGED <<lampVars, rotaryOldPosition, bootVars, transportVars,
                 events, ret, inputs>>

\* events() runs a due event, which it has removed first, and looks again
Settle ==
  /\ pc = "events"
  /\ Due(events)
  /\ events' = Without(events, FirstDue(events))
  /\ \E r \in clearDisplayAndPublishMQTT(Fresh, clientConnected, MaxInFlight) :
        /\ Finish(r, IF Due(events') THEN "events" ELSE "mqtt")
        /\ BurstObserve(IF Undisturbed(r) THEN "settle" ELSE "other",
                        Len(r.g.published))
  /\ Did("settle", NoMessage)
  /\ LpObserve("other") /\ OffRotObserve("other")
  /\ DblObserve("other") /\ CmdObserve("idle", 0)
  /\ UNCHANGED <<rotaryOldPosition, bootVars, transportVars, inputs>>

\* mqttClient.loop() at the end of loop() with nothing to deliver
NoInbound ==
  /\ pc = "mqtt"
  /\ pc' = "knob"
  /\ NoCalls /\ displayCalled' = FALSE
  /\ Did("none", NoMessage)
  /\ Observe("idle")
  /\ UNCHANGED <<lampVars, rotaryOldPosition, bootVars, transportVars,
                 events, ret, inputs>>

\* mqttClient.loop() at the end of loop() delivers a message
Inbound ==
  /\ pc = "mqtt"
  /\ clientConnected
  /\ Input
  /\ pc' = "knob"
  /\ \E m \in Messages :
        /\ Commit(mqttCallback(Fresh, m))
        /\ Did("message", m)
        /\ IF m \in Commands
           THEN CmdObserve("cmd", Ord(m.lampChar) - 48)
           ELSE CmdObserve("other", 0)
  /\ LpObserve("other") /\ BurstObserve("other", 0) /\ OffRotObserve("other")
  /\ DblObserve("other")
  /\ UNCHANGED <<rotaryOldPosition, bootVars, transportVars, events, ret>>

\* mqttReconnect: a connect attempt that succeeds; the interrupted call goes on
MqttReconnect ==
  /\ pc = "reconnect"
  /\ brokerUp
  /\ clientConnected' = TRUE
  /\ \E r \in CallPublish(Globals, ret.val, ret, TRUE, MaxInFlight) :
        Finish(r, IF ret.h # "settle" THEN "events"
                  ELSE IF Due(events) THEN "events" ELSE "mqtt")
  /\ Observe("other")
  /\ attempts' = 0
  /\ UNCHANGED <<rotaryOldPosition, bootVars, brokerUp, events, lastOp,
                 lastMsg, inputs>>

\* mqttReconnect: a connect attempt that fails; wait 5 seconds and go round
MqttReconnectFails ==
  /\ pc = "reconnect"
  /\ ~brokerUp
  /\ attempts' = 1 - attempts
  /\ Observe("other")
  /\ UNCHANGED <<lampVars, rotaryOldPosition, bootVars, clientConnected,
                 brokerUp, events, pc, ret, callVars, lastOp, lastMsg,
                 inputs>>

----------------------------------------------------------------------------
(* Environment, between two passes of loop() *)

\* the knob is turned; the Encoder object counts it at once
Rotate ==
  /\ pc = "knob"
  /\ Input
  /\ \E d \in KnobMoves :
        /\ rotaryKnob + d >= 0 - MaxKnob
        /\ rotaryKnob + d <= MaxKnob
        /\ rotaryKnob' = rotaryKnob + d
  /\ NoCalls /\ displayCalled' = FALSE
  /\ Did("rotate", NoMessage)
  /\ LpObserve("other") /\ BurstObserve("keep", 0) /\ OffRotObserve("rotate")
  /\ DblObserve("other") /\ CmdObserve("other", 0)
  /\ UNCHANGED <<myLamps, analogOut, selectedLamp, lampsInUse, rotaryOldPosition,
                 bootVars, transportVars, events, pc, ret>>

\* a second passes
Tick ==
  /\ pc = "knob"
  /\ \/ \E n \in 1 .. Len(events) : events[n] > 0
     \/ burstLen > 0 /\ quiet < displayAfterglow
  /\ events' = [n \in 1 .. Len(events) |->
                  IF events[n] > 0 THEN events[n] - 1 ELSE events[n]]
  /\ NoCalls /\ displayCalled' = FALSE
  /\ Did("tick", NoMessage)
  /\ LpObserve("keep") /\ BurstObserve("tick", 0) /\ OffRotObserve("keep")
  /\ DblObserve("keep") /\ CmdObserve("keep", 0)
  /\ UNCHANGED <<lampVars, rotaryOldPosition, bootVars, transportVars, pc, ret,
                 inputs>>

\* the connection to the broker breaks
TransportLost ==
  /\ pc = "knob"
  /\ clientConnected
  /\ Input
  /\ clientConnected' = FALSE
  /\ brokerUp' = FALSE
  /\ UNCHANGED attempts
  /\ NoCalls /\ displayCalled' = FALSE
  /\ Did("lost", NoMessage)
  /\ Observe("other")
  /\ UNCHANGED <<lampVars, rotaryOldPosition, bootVars, events, pc, ret>>

\* the broker can be reached again
BrokerBack ==
  /\ mqttConnected
  /\ ~brokerUp
  /\ brokerUp' = TRUE
  /\ Observe("keep")
  /\ UNCHANGED <<lampVars, rotaryOldPosition, bootVars, clientConnected,
                 attempts, events, pc, ret, callVars, lastOp, lastMsg,
                 inputs>>

----------------------------------------------------------------------------

Next ==
  \/ LoopKnob
  \/ NoGesture
  \/ Click
  \/ DoubleClick
  \/ LongPressStart
  \/ NoEventDue
  \/ Settle
  \/ NoInbound
  \/ Inbound
  \/ MqttReconnect
  \/ MqttReconnectFails
  \/ Rotate
  \/ Tick
  \/ TransportLost
  \/ BrokerBack

Spec == Init /\ [][Next]_vars

\* the steps the processor takes on its own: loop() never stops running
ProgramStep ==
  \/ LoopKnob
  \/ NoGesture
  \/ NoEventDue
  \/ Settle
  \/ NoInbound
  \/ MqttReconnect
  \/ MqttReconnectFails

FairSpec == Spec /\ WF_vars(ProgramStep)

\* the steps of a run in which nobody touches the knob
NextKnobStill ==
  \/ LoopKnob
  \/ NoGesture
  \/ Click
  \/ DoubleClick
  \/ LongPressStart
  \/ NoEventDue
  \/ Settle
  \/ NoInbound
  \/ Inbound
  \/ MqttReconnect
  \/ MqttReconnectFails
  \/ Tick
  \/ TransportLost
  \/ BrokerBack

SpecKnobStill == Init /\ [][NextKnobStill]_vars

TypeOK ==
  /\ selectedLamp \in Lamps
  /\ pc \in LoopPhases \cup {"reconnect"}
  /\ \A n \in 1 .. Len(events) : events[n] \in 0 .. displayAfterglow
  /\ displayCalled \in BOOLEAN

----------------------------------------------------------------------------
(* Claims *)

Idle == pc \in LoopPhases

\* the lamp and the value a command message addresses
CmdLamp(m) == Ord(m.lampChar) - 48
CmdValue(m) == toInt(m.payload)

\* C1: in every reachable state every channel that is on has a value in
\* 2..255.
C1_OnValueInRange ==
  \A c \in Lamps :
    myLamps[c].isOn =>
      myLamps[c].value >= minLampValue /\ myLamps[c].value <= 255

\* C2: once a control action has run to completion, lampsInUse is true if
\* and only if at least one channel is on.
C2_LampsInUseIffAnyOn ==
  Idle => (lampsInUse <=> AnyOn(myLamps))

\* C3: from a state with a channel on, two long presses in a row with
\* nothing in between leave every channel's isOn and value as they were;
\* after the first one every channel is off and isOnDefault is the earlier
\* isOn.
C3_LongPressRoundTrip ==
  /\ lpRun = 2 =>
       \A c \in Lamps :
         /\ myLamps[c].isOn = lpBefore[c].isOn
         /\ myLamps[c].value = lpBefore[c].value
  /\ (lpRun = 1 /\ lastOp = "longpress") =>
       \A c \in Lamps :
         /\ ~myLamps[c].isOn
         /\ myLamps[c].isOnDefault = lpBefore[c].isOn

\* C4: a command with a payload v in 1..255 for a valid channel c leaves c
\* on with value v and lampsInUse true, and makes exactly one publish, of v
\* on channel c's brightness topic.
C4_CommandOnPublishes ==
  (lastOp = "message" /\ lastMsg \in Commands /\ CmdValue(lastMsg) >= 1) =>
    LET c == CmdLamp(lastMsg)
        v == CmdValue(lastMsg)
    IN /\ myLamps[c].isOn
       /\ myLamps[c].value = v
       /\ lampsInUse
       /\ Len(published) = 1
       /\ published[1].lamp = c
       /\ toInt(published[1].payload) = v

\* C5: a command with payload 0 for a valid channel c leaves c off and
\* publishes the value 0 for that channel.
C5_CommandOffPublishesZero ==
  (lastOp = "message" /\ lastMsg \in Commands /\ CmdValue(lastMsg) = 0) =>
    LET c == CmdLamp(lastMsg)
    IN /\ ~myLamps[c].isOn
       /\ \E n \in 1 .. Len(published) :
            published[n].lamp = c /\ toInt(published[n].payload) = 0

C7_RotateWhileOffNoEffect ==
  offRot = 3 =>
    \A c \in Lamps : myLamps[c].value = offRotBefore[c].value

\* C8: every publish on channel c's brightness topic carries c.value if c is
\* on at that moment and 0 if it is off.
C8_PublishCarriesState ==
  \A n \in 1 .. Len(published) :
    toInt(published[n].payload) =
      IF published[n].isOn THEN published[n].value ELSE 0

\* C9: whatever happens to the transport, every handler returns and loop()
\* polls the button again and again.
C9_LoopKeepsPolling == []<>(pc = "button")

\* C10: when the long-press handler has returned, selectedLamp = 0.
C10_LongPressSelectsFirst ==
  (lastOp = "longpress" /\ Idle) => selectedLamp = 0

\* the text is a decimal number: an optional sign, then digits only
IsNumeric(s) ==
  LET body == IF s # <<>> /\ Head(s) = "-" THEN Tail(s) ELSE s
  IN body # <<>> /\ \A n \in 1 .. Len(body) : IsDigit(body[n])

\* the step hands message m to mqttCallback from loop()
Delivers(m) == pc = "mqtt" /\ lastOp' = "message" /\ lastMsg' = m

\* C11: a command message whose payload is not numeric changes no channel's
\* isOn, value or output, and does not change lampsInUse.
C11_NonNumericRejected ==
  [][\A m \in Messages :
       (Delivers(m) /\ m.part = mqttCommandTopic /\ ~IsNumeric(m.payload)) =>
         /\ \A c \in Lamps :
              /\ myLamps'[c].isOn = myLamps[c].isOn
              /\ myLamps'[c].value = myLamps[c].value
         /\ analogOut' = analogOut
         /\ lampsInUse' = lampsInUse]_vars

\* the message is none of the commands: its channel index is outside 0..2,
\* its subtopic is not the command subtopic, or its payload is a number
\* outside 0..255
NotACommand(m) ==
  \/ CmdLamp(m) \notin Lamps
  \/ m.part # mqttCommandTopic
  \/ IsNumeric(m.payload) /\ (CmdValue(m) < 0 \/ CmdValue(m) > commandMax)

\* C12: a message that is not a valid command (channel index outside 0..2,
\* the brightness echo, an unknown subtopic, a payload outside 0..255)
\* leaves every channel's isOn, isOnDefault, value and output, selectedLamp,
\* lampsInUse, the knob position and the pending settle action as they were
\* and makes no publish.
C12_InvalidMessageIgnored ==
  [][\A m \in Messages :
       (Delivers(m) /\ NotACommand(m)) =>
         /\ UNCHANGED <<myLamps, analogOut, selectedLamp, lampsInUse,
                        rotaryKnob, rotaryOldPosition, events>>
         /\ published' = <<>>]_vars

\* C12 witness: the payload 300 has been turned down for channel 1 while a
\* channel is on and a settle action is pending.
C12_Witness ==
  /\ lastOp = "message"
  /\ lastMsg = Msg("1", mqttCommandTopic, <<"3", "0", "0">>)
  /\ AnyOn(myLamps)
  /\ events # <<>>

\* C13: outside a fade, every channel that is off has output 0, whatever
\* value it stores.
C13_OffMeansDark ==
  \A c \in Lamps : ~myLamps[c].isOn => analogOut[c] = 0

\* C14: selectedLamp is always in 0..2; after n double clicks in a row it is
\* the starting index plus n, modulo 3, and no channel's isOn or value has
\* changed; after three it is the starting index again.
C14_DoubleClickCycles ==
  /\ selectedLamp \in Lamps
  /\ dblRun > 0 =>
       /\ selectedLamp = (dblBefore.sel + dblRun) % numberOfLamps
       /\ \A c \in Lamps :
            /\ myLamps[c].isOn = dblBefore.lamps[c].isOn
            /\ myLamps[c].value = dblBefore.lamps[c].value
  /\ dblRun = 3 => selectedLamp = dblBefore.sel

\* C14 witness: three double clicks in a row, with a channel on, are back at
\* the starting index.
C14_Witness ==
  /\ dblRun = 3
  /\ selectedLamp = dblBefore.sel
  /\ AnyOn(myLamps)

\* C15: at most one settle action is pending; a polled knob movement leaves
\* exactly one, due one quiet period later, and through a burst of movements
\* the one pending is due one quiet period after the last movement.
C15_OneSettlePending ==
  /\ Len(events) <= 1
  /\ lastOp = "knob" => events = <<displayAfterglow>>
  /\ (burstLen > 0 /\ events # <<>>) => events[1] = displayAfterglow - quiet

\* C15 witness: a second after the second movement of a burst, one settle
\* action is pending and due a quiet period after that movement.
C15_Witness ==
  /\ burstLen >= 2
  /\ quiet = 1
  /\ events = <<displayAfterglow - 1>>

\* what a recorded fade did: value + 1 unit steps, from 0 up to the value
\* when switching on and from the value down to 0 when switching off
FadeOK(f) ==
  LET writes == fadeWrites(f.value, f.switchOn)
  IN /\ Len(writes) = f.value + 1
     /\ writes[1] = (IF f.switchOn THEN 0 ELSE f.value)
     /\ \A n \in 2 .. Len(writes) :
          writes[n] = writes[n - 1] + (IF f.switchOn THEN 1 ELSE 0 - 1)
     /\ f.out = (IF f.switchOn THEN f.value ELSE 0)

\* the n-th publish is the one of the n-th fade: on that channel, carrying the
\* value when switched on and 0 when switched off
FadePublished(n) ==
  /\ published[n].lamp = fades[n].lamp
  /\ toInt(published[n].payload) =
       (IF fades[n].switchOn THEN fades[n].value ELSE 0)

\* a click or long press has returned
GestureDone == Idle /\ lastOp \in {"click", "longpress"}

\* C16: when a click or long press has returned, each of its fades took
\* value + 1 unit steps in one direction (0 up to the value, or the value
\* down to 0) and made exactly one publish, of the value when switched on and
\* of 0 when switched off.
C16_FadePublishesOnce ==
  GestureDone =>
    /\ \A n \in 1 .. Len(fades) : FadeOK(fades[n])
    /\ Len(published) = Len(fades)
    /\ \A n \in 1 .. Len(fades) : FadePublished(n)

\* C16 amended: the fades are as stated; the one publish per fade is made
\* when MQTT was connected at boot, and none is made when it was not; while
\* the handler waits in mqttReconnect the publish of its last fade is
\* still to come.
C16_FadePublishesOnceIfConnected ==
  /\ GestureDone =>
       /\ \A n \in 1 .. Len(fades) : FadeOK(fades[n])
       /\ IF mqttConnected
          THEN /\ Len(published) = Len(fades)
               /\ \A n \in 1 .. Len(fades) : FadePublished(n)
          ELSE published = <<>>
  /\ (pc = "reconnect" /\ lastOp \in {"click", "longpress"}) =>
       /\ \A n \in 1 .. Len(fades) : FadeOK(fades[n])
       /\ Len(published) = Len(fades) - 1
       /\ \A n \in 1 .. Len(published) : FadePublished(n)

\* C16 witness: a long press has faded two channels back on and published
\* for each.
C16_Witness ==
  /\ GestureDone
  /\ mqttConnected
  /\ Len(fades) = 2
  /\ fades[1].switchOn
  /\ Len(published) = 2

\* C17: when the display was not found at boot, no step of loop() and no
\* handler calls the display.
C17_NoDisplayCallsWithoutDisplay ==
  ~displayConnected => ~displayCalled

\* C18: a command for channel c leaves isOn, value and output of every other
\* channel as they were, after the command and after the poll of the knob
\* that follows it with the knob untouched.
C18_CommandTouchesOneLamp ==
  cmdRun > 0 =>
    \A d \in Lamps \ {cmdBefore.lamp} :
      /\ myLamps[d].isOn = cmdBefore.lamps[d].isOn
      /\ myLamps[d].value = cmdBefore.lamps[d].value
      /\ analogOut[d] = cmdBefore.out[d]

\* C19: in a run in which the knob is never turned, no settle action is ever
\* pending and none runs, whatever clicks, double clicks, long presses and
\* commands there are.
C19_NoSettleWithoutKnob ==
  events = <<>> /\ lastOp # "settle"

\* C20: once a control action has run to completion, a channel that is on
\* means lampsInUse is true (lampsInUse false means every channel is off).
C20_AnyOnMeansInUse ==
  Idle => (AnyOn(myLamps) => lampsInUse)

====
